---------------------------- MODULE Spec2Model ----------------------------
(***************************************************************************)
(* getpcaps (progs/getpcaps.c): displays the capabilities of the processes *)
(* named on the command line.  main() is modelled statement by statement;  *)
(* the libcap routines it calls (cap_init, capgetp, cap_to_text, cap_free) *)
(* live outside progs/ and are modelled from their documented contract.    *)
(***************************************************************************)
EXTENDS Integers, Sequences, FiniteSets, TLC

\* Largest number of pid arguments on the command line (argc - 1).
MaxArgs == 2

\* Number of capability bit positions in each of the three vectors.
MAX_CAP == 3

\* Pointers: the null pointer, or a pointer to an object holding val.
NULL == [null |-> TRUE]

Ptr(v) == [null |-> FALSE, val |-> v]

(***************************************************************************)
(* Command-line tokens are C strings: sequences of characters.             *)
(***************************************************************************)
Digits == {"0", "1", "2", "3", "4", "5", "6", "7", "8", "9"}

DigitVal(c) ==
    CASE c = "0" -> 0 [] c = "1" -> 1 [] c = "2" -> 2 [] c = "3" -> 3
      [] c = "4" -> 4 [] c = "5" -> 5 [] c = "6" -> 6 [] c = "7" -> 7
      [] c = "8" -> 8 [] c = "9" -> 9

DigitChar(d) ==
    CASE d = 0 -> "0" [] d = 1 -> "1" [] d = 2 -> "2" [] d = 3 -> "3"
      [] d = 4 -> "4" [] d = 5 -> "5" [] d = 6 -> "6" [] d = 7 -> "7"
      [] d = 8 -> "8" [] d = 9 -> "9"

\* The argument tokens a caller may supply: plain, zero-padded, negative
\* and non-numeric.
ArgTokens ==
    { <<"7">>, <<"0", "7">>, <<"-", "3">>, <<"x">> }

RECURSIVE SkipSpace(_, _)
SkipSpace(s, k) ==
    IF k <= Len(s) /\ s[k] = " " THEN SkipSpace(s, k + 1) ELSE k

RECURSIVE ParseDigits(_, _, _)
ParseDigits(s, k, acc) ==
    IF k <= Len(s) /\ s[k] \in Digits
    THEN ParseDigits(s, k + 1, acc * 10 + DigitVal(s[k]))
    ELSE acc

\* atoi(3): leading blanks, an optional sign, then the longest run of
\* digits; 0 when there is none.
atoi(s) ==
    LET k    == SkipSpace(s, 1)
        sign == k <= Len(s) /\ s[k] \in {"-", "+"}
        neg  == k <= Len(s) /\ s[k] = "-"
        v    == ParseDigits(s, IF sign THEN k + 1 ELSE k, 0)
    IN  IF neg THEN 0 - v ELSE v

RECURSIVE FormatNat(_)
FormatNat(n) ==
    IF n < 10 THEN <<DigitChar(n)>>
    ELSE Append(FormatNat(n \div 10), DigitChar(n % 10))

\* printf's %d conversion.
FormatD(n) ==
    IF n < 0 THEN <<"-">> \o FormatNat(0 - n) ELSE FormatNat(n)

(***************************************************************************)
(* Capability sets and their text form.                                    *)
(***************************************************************************)
CapIndex == 0 .. (MAX_CAP - 1)

Flags == {"e", "i", "p"}

CapSets == [e : SUBSET CapIndex, i : SUBSET CapIndex, p : SUBSET CapIndex]

EmptyCapSet == [e |-> {}, i |-> {}, p |-> {}]

\* The capability name table: sparse, the highest index has no name.
NameTable == (0 :> "chown") @@ (1 :> "dac_override")

Names == {NameTable[n] : n \in DOMAIN NameTable}

indexOf(name) == CHOOSE n \in DOMAIN NameTable : NameTable[n] = name

\* The flag signature of one capability: the vectors that hold it.
Sig(c, n) == {f \in Flags : n \in c[f]}

\* A slip in the flag order: permitted written before inheritable.
FlagLettersPI(sig) ==
    (IF "e" \in sig THEN <<"e">> ELSE <<>>)
    \o (IF "p" \in sig THEN <<"p">> ELSE <<>>)
    \o (IF "i" \in sig THEN <<"i">> ELSE <<>>)

FlagLetters(sig) ==
    (IF "e" \in sig THEN <<"e">> ELSE <<>>)
    \o (IF "i" \in sig THEN <<"i">> ELSE <<>>)
    \o (IF "p" \in sig THEN <<"p">> ELSE <<>>)

MinOf(S) == CHOOSE m \in S : \A x \in S : m <= x

RECURSIVE JoinNames(_)
JoinNames(S) ==
    IF S = {} THEN <<>>
    ELSE LET m == MinOf(S)
         IN  IF S = {m} THEN <<NameTable[m]>>
             ELSE <<NameTable[m], ",">> \o JoinNames(S \ {m})

RECURSIVE EncodeFrom(_, _)
EncodeFrom(c, todo) ==
    IF todo = {} THEN <<>>
    ELSE LET m      == MinOf(todo)
             group  == {n \in todo : Sig(c, n) = Sig(c, m)}
             clause == JoinNames(group) \o <<"=">> \o FlagLetters(Sig(c, m))
             rest   == EncodeFrom(c, todo \ group)
         IN  IF rest = <<>> THEN clause ELSE clause \o <<" ">> \o rest

\* cap_to_text's string for a valid set: one clause per flag signature,
\* unnamed bits skipped, "=" for the set with nothing to show.
cap_to_text(c) ==
    LET t == EncodeFrom(c, {n \in DOMAIN NameTable : Sig(c, n) # {}})
    IN  IF t = <<>> THEN <<"=">> ELSE t

FlagRank(f) == CASE f = "e" -> 1 [] f = "i" -> 2 [] f = "p" -> 3

Raise(c, names, flags) ==
    [f \in Flags |->
        IF f \in flags THEN c[f] \cup {indexOf(x) : x \in names} ELSE c[f]]

Malformed == [error |-> "MalformedCapabilityText"]

\* The clause parser: mode "name" expects a capability name, "sep" a comma
\* or the equals sign, "flags" a flag letter, a blank or the end.
RECURSIVE ParseText(_, _, _, _, _, _)
ParseText(t, k, mode, names, last, c) ==
    IF k > Len(t)
    THEN IF mode = "flags" /\ last > 0 THEN c ELSE Malformed
    ELSE
      CASE mode = "name" ->
             IF t[k] \in Names /\ t[k] \notin names
             THEN ParseText(t, k + 1, "sep", names \cup {t[k]}, 0, c)
             ELSE Malformed
        [] mode = "sep" ->
             IF t[k] = "," THEN ParseText(t, k + 1, "name", names, 0, c)
             ELSE IF t[k] = "=" THEN ParseText(t, k + 1, "flags", names, 0, c)
             ELSE Malformed
        [] mode = "flags" ->
             IF t[k] \in Flags /\ FlagRank(t[k]) > last
             THEN ParseText(t, k + 1, "flags", names, FlagRank(t[k]),
                            Raise(c, names, {t[k]}))
             ELSE IF t[k] = " " /\ last > 0
             THEN ParseText(t, k + 1, "name", {}, 0, c)
             ELSE Malformed

\* cap_from_text: the inverse of cap_to_text on the grammar it produces.
cap_from_text(t) ==
    IF t = <<"=">> THEN EmptyCapSet
    ELSE ParseText(t, 1, "name", {}, 0, EmptyCapSet)

(***************************************************************************)
(* The program state of main().                                            *)
(***************************************************************************)
VARIABLES
    args,     \* argv[1 .. argc-1] as given by the caller
    argc,     \* main's argc, counted down by the loop
    argi,     \* the argument argv points at (argv[0] of the loop body)
    pc,       \* the statement main is about to execute
    cap_d,    \* main's cap_d
    pid,      \* the loop body's pid
    result,   \* the loop body's result
    errno,    \* the C library's errno
    stderr,   \* the lines written to stderr, in order
    calls,    \* the libcap calls made so far, in order
    status,   \* the exit status, -1 while running
    decoded   \* the codec's decode of result (codec runs only)

vars == <<args, argc, argi, pc, cap_d, pid, result, errno, stderr, calls,
          status, decoded>>

RECURSIVE SeqsUpTo(_, _)
SeqsUpTo(S, n) ==
    IF n = 0 THEN {<<>>}
    ELSE LET shorter == SeqsUpTo(S, n - 1)
         IN  shorter \cup {Append(s, x) : s \in shorter, x \in S}

\* The capability sets the kernel reports for the processes of a run.
KernelSets ==
    { EmptyCapSet,
      [e |-> {0, 2}, i |-> {1}, p |-> {0, 1, 2}] }

\* The causes a failed capgetp leaves in errno.
QueryErrnos == {"ESRCH", "EPERM"}

Init ==
    /\ args \in SeqsUpTo(ArgTokens, MaxArgs)
    /\ argc = Len(args) + 1
    /\ argi = 0
    /\ pc = "main"
    /\ cap_d = NULL
    /\ pid = 0
    /\ result = NULL
    /\ errno = "0"
    /\ stderr = <<>>
    /\ calls = <<>>
    /\ status = -1
    /\ decoded = NULL

\* Lines 17-26 and 32-34: with no argument, the usage banner and exit(1).
Usage ==
    /\ pc = "main"
    /\ argc < 2
    /\ stderr' = Append(stderr, [fmt |-> "usage", arg |-> 0])
    /\ status' = 1
    /\ pc' = "exit"
    /\ UNCHANGED <<args, argc, argi, cap_d, pid, result, errno, calls, decoded>>

\* Line 36 and the loop's initialiser ++argv: cap_init() gives a blank set
\* or, out of memory, NULL.
CapInit ==
    /\ pc = "main"
    /\ argc >= 2
    /\ \E r \in {Ptr(EmptyCapSet), NULL} :
          /\ cap_d' = r
          /\ errno' = IF r = NULL THEN "ENOMEM" ELSE errno
          /\ calls' = Append(calls, [fn |-> "cap_init", arg |-> 0, ret |-> r])
    /\ argi' = 1
    /\ pc' = "for"
    /\ UNCHANGED <<args, argc, pid, result, stderr, status, decoded>>

\* Line 37's test --argc > 0, and line 61 when it fails.
ForTest ==
    /\ pc = "for"
    /\ argc' = argc - 1
    /\ IF argc - 1 > 0
       THEN pc' = "body" /\ status' = status
       ELSE pc' = "exit" /\ status' = 0
    /\ UNCHANGED <<args, argi, cap_d, pid, result, errno, stderr, calls, decoded>>

\* Lines 41-45: no blank set, report and exit(1).
NoBlankSet ==
    /\ pc = "body"
    /\ cap_d = NULL
    /\ stderr' = Append(stderr, [fmt |-> "blank", arg |-> argi, cause |-> errno])
    /\ status' = 1
    /\ pc' = "exit"
    /\ UNCHANGED <<args, argc, argi, cap_d, pid, result, errno, calls, decoded>>

\* Line 47.
Atoi ==
    /\ pc = "body"
    /\ cap_d # NULL
    /\ pid' = atoi(args[argi])
    /\ pc' = "capgetp"
    /\ UNCHANGED <<args, argc, argi, cap_d, result, errno, stderr, calls,
                   status, decoded>>

\* capgetp's effect on the set it is handed, on success: the three vectors
\* are replaced wholesale by the target's; nothing of the old value stays.
capgetp_fill(old, c) == Ptr(c)

\* A failed query that ends the run instead of continuing the loop.
CapgetpFailAbort ==
    /\ pc = "capgetp"
    /\ \E e \in QueryErrnos :
          /\ errno' = e
          /\ calls' = Append(calls, [fn |-> "capgetp", arg |-> argi,
                                     pid |-> pid, ret |-> -1, cause |-> e])
          /\ stderr' = Append(stderr, [fmt |-> "fail", arg |-> argi,
                                       tag |-> FormatD(pid), cause |-> e])
    /\ status' = 1
    /\ pc' = "exit"
    /\ UNCHANGED <<args, argc, argi, cap_d, pid, result, decoded>>

\* A failed query without the `continue': the report is written and the
\* body goes on to render what cap_d holds.
CapgetpFailFallThrough ==
    /\ pc = "capgetp"
    /\ \E e \in QueryErrnos :
          /\ errno' = e
          /\ calls' = Append(calls, [fn |-> "capgetp", arg |-> argi,
                                     pid |-> pid, ret |-> -1, cause |-> e])
          /\ stderr' = Append(stderr, [fmt |-> "fail", arg |-> argi,
                                       tag |-> FormatD(pid), cause |-> e])
    /\ pc' = "cap_to_text"
    /\ UNCHANGED <<args, argc, argi, cap_d, pid, result, status, decoded>>

\* A failed query that is tried once more before it is reported.
CapgetpFailRetry ==
    /\ pc = "capgetp"
    /\ \E e \in QueryErrnos :
          /\ errno' = e
          /\ calls' = Append(calls, [fn |-> "capgetp", arg |-> argi,
                                     pid |-> pid, ret |-> -1, cause |-> e])
          /\ IF \E j \in DOMAIN calls :
                   calls[j].fn = "capgetp" /\ calls[j].arg = argi
             THEN /\ stderr' = Append(stderr, [fmt |-> "fail", arg |-> argi,
                                               tag |-> FormatD(pid), cause |-> e])
                  /\ argi' = argi + 1
                  /\ pc' = "for"
             ELSE UNCHANGED <<stderr, argi, pc>>
    /\ UNCHANGED <<args, argc, cap_d, pid, result, status, decoded>>

\* Lines 49-52: capgetp fails; the report names the parsed pid and the
\* cause, and `continue' runs the loop's ++argv.
CapgetpFail ==
    /\ pc = "capgetp"
    /\ \E e \in QueryErrnos :
          /\ errno' = e
          /\ calls' = Append(calls, [fn |-> "capgetp", arg |-> argi,
                                     pid |-> pid, ret |-> -1, cause |-> e])
          /\ stderr' = Append(stderr, [fmt |-> "fail", arg |-> argi,
                                       tag |-> FormatD(pid), cause |-> e])
    /\ argi' = argi + 1
    /\ pc' = "for"
    /\ UNCHANGED <<args, argc, cap_d, pid, result, status, decoded>>

\* Lines 49 and 53: capgetp succeeds and has filled *cap_d with the
\* target's three vectors.
CapgetpOk ==
    /\ pc = "capgetp"
    /\ \E c \in KernelSets :
          /\ cap_d' = capgetp_fill(cap_d, c)
          /\ calls' = Append(calls, [fn |-> "capgetp", arg |-> argi,
                                     pid |-> pid, ret |-> 0, set |-> c])
    /\ pc' = "cap_to_text"
    /\ UNCHANGED <<args, argc, argi, pid, result, errno, stderr, status, decoded>>

\* Line 54: cap_to_text returns a freshly allocated string, or NULL when
\* the allocation fails.
CapToText ==
    /\ pc = "cap_to_text"
    /\ \E r \in {Ptr(cap_to_text(cap_d.val)), NULL} :
          /\ result' = r
          /\ errno' = IF r = NULL THEN "ENOMEM" ELSE errno
          /\ calls' = Append(calls, [fn |-> "cap_to_text", arg |-> argi,
                                     set |-> cap_d.val, ret |-> r])
    /\ pc' = "fprintf"
    /\ UNCHANGED <<args, argc, argi, cap_d, pid, stderr, status, decoded>>

\* What %s writes for a char pointer: the string, "(null)" for NULL.
FormatS(str) == IF str = NULL THEN <<"(null)">> ELSE str.val

\* A format string that leaves the rendered text out.
FprintfNoText ==
    /\ pc = "fprintf"
    /\ stderr' = Append(stderr, [fmt |-> "caps", arg |-> argi,
                                 tag |-> args[argi], text |-> <<>>])
    /\ pc' = "cap_free"
    /\ UNCHANGED <<args, argc, argi, cap_d, pid, result, errno, calls, status,
                   decoded>>

\* Line 55.
Fprintf ==
    /\ pc = "fprintf"
    /\ stderr' = Append(stderr, [fmt |-> "caps", arg |-> argi,
                                 tag |-> args[argi], text |-> FormatS(result)])
    /\ pc' = "cap_free"
    /\ UNCHANGED <<args, argc, argi, cap_d, pid, result, errno, calls, status,
                   decoded>>

\* A loop body that forgets the buffer instead of freeing it.
CapFreeLeak ==
    /\ pc = "cap_free"
    /\ result' = NULL
    /\ argi' = argi + 1
    /\ pc' = "for"
    /\ UNCHANGED <<args, argc, cap_d, pid, errno, stderr, calls, status, decoded>>

\* Lines 56-57 and the loop's ++argv.
CapFree ==
    /\ pc = "cap_free"
    /\ calls' = Append(calls, [fn |-> "cap_free", arg |-> argi,
                               obj |-> "result", ptr |-> result])
    /\ result' = NULL
    /\ argi' = argi + 1
    /\ pc' = "for"
    /\ UNCHANGED <<args, argc, cap_d, pid, errno, stderr, status, decoded>>

Next ==
    \/ Usage
    \/ CapInit
    \/ ForTest
    \/ NoBlankSet
    \/ Atoi
    \/ CapgetpFail
    \/ CapgetpOk
    \/ CapToText
    \/ Fprintf
    \/ CapFree

Spec == Init /\ [][Next]_vars

\* main is one sequential thread: it takes its next step while it has one.
FairSpec == Spec /\ WF_vars(Next)

(***************************************************************************)
(* The text codec on its own: every capability set over the three vectors  *)
(* is encoded, and the text decoded back.                                  *)
(***************************************************************************)
CodecInit ==
    /\ args = <<>>
    /\ argc = 1
    /\ argi = 0
    /\ pc = "encode"
    /\ cap_d \in {Ptr(c) : c \in CapSets}
    /\ pid = 0
    /\ result = NULL
    /\ errno = "0"
    /\ stderr = <<>>
    /\ calls = <<>>
    /\ status = -1
    /\ decoded = NULL

Encode ==
    /\ pc = "encode"
    /\ result' = Ptr(cap_to_text(cap_d.val))
    /\ pc' = "decode"
    /\ UNCHANGED <<args, argc, argi, cap_d, pid, errno, stderr, calls, status,
                   decoded>>

Decode ==
    /\ pc = "decode"
    /\ decoded' = Ptr(cap_from_text(result.val))
    /\ pc' = "done"
    /\ UNCHANGED <<args, argc, argi, cap_d, pid, result, errno, stderr, calls,
                   status>>

CodecNext == Encode \/ Decode

CodecSpec == CodecInit /\ [][CodecNext]_vars

(***************************************************************************)
(* What a run shows: the outcome lines and the calls of each argument.     *)
(***************************************************************************)
IsOutcome(l) == l.fmt \in {"caps", "fail"}

Outcomes == SelectSeq(stderr, IsOutcome)

CallsFor(fn, k) == {j \in DOMAIN calls : calls[j].fn = fn /\ calls[j].arg = k}

CallsTo(fn) == {j \in DOMAIN calls : calls[j].fn = fn}

LinesFor(fmt, k) ==
    {j \in DOMAIN stderr : stderr[j].fmt = fmt /\ stderr[j].arg = k}

\* The arguments whose loop iteration is over.
Processed == IF pc = "main" THEN {} ELSE 1 .. (argi - 1)

\* The text buffers handed out by cap_to_text and not yet given back.
LiveBuffers ==
    Cardinality({j \in CallsTo("cap_to_text") : calls[j].ret # NULL})
    - Cardinality({j \in CallsTo("cap_free") : calls[j].ptr # NULL})

BlankSetFailed == \E j \in CallsTo("cap_init") : calls[j].ret = NULL

\* C1: a failed query never aborts the batch: every argument is queried,
\* and a run that reaches the end of the loop has written exactly one
\* outcome line per argument, in argument order; the only exits with
\* status 1 happen before any query.
C1_FailureIsolation ==
    /\ Len(Outcomes) \in {Cardinality(Processed), Cardinality(Processed) + 1}
    /\ \A k \in 1 .. Len(Outcomes) : Outcomes[k].arg = k
    /\ pc = "for" => Len(Outcomes) = Cardinality(Processed)
    /\ status = 0 =>
          /\ Len(Outcomes) = Len(args)
          /\ \A k \in 1 .. Len(args) : CallsFor("capgetp", k) # {}
    /\ status = 1 => CallsTo("capgetp") = {}

\* C1's case: a finished batch whose first query failed and whose second
\* argument was still queried and rendered.
C1_Witness ==
    /\ status = 0
    /\ Len(args) = 2
    /\ Outcomes[1].fmt = "fail"
    /\ Outcomes[2].fmt = "caps"

\* C2: capgetp is only ever called with a pid greater than zero.
C2_OnlyPositivePidsQueried ==
    \A j \in CallsTo("capgetp") : calls[j].pid > 0

\* C3: every outcome line, rendered text or failure report, is tagged with
\* the argument token exactly as the caller supplied it.
C3_TaggedWithToken ==
    \A j \in DOMAIN stderr :
        IsOutcome(stderr[j]) => stderr[j].tag = args[stderr[j].arg]

\* C4: the text written for an argument is a function of the capability
\* set its own query read (and of whether its own buffer was allocated):
\* each rendered line belongs to an argument with exactly one query, that
\* query succeeded, and the text is the encoding of the set it returned,
\* whatever was queried before.
C4_TextFromOwnQuery ==
    \A j \in DOMAIN stderr :
        stderr[j].fmt = "caps" =>
            LET k == stderr[j].arg
                q == CallsFor("capgetp", k)
                r == CallsFor("cap_to_text", k)
            IN  /\ Cardinality(q) = 1
                /\ Cardinality(r) = 1
                /\ \A a \in q, b \in r :
                      /\ calls[a].ret = 0
                      /\ a < b
                      /\ calls[b].set = calls[a].set
                      /\ stderr[j].text \in
                            {cap_to_text(calls[a].set), <<"(null)">>}
                      /\ calls[b].ret # NULL =>
                            stderr[j].text = cap_to_text(calls[a].set)

\* C4's case: two rendered pids in one batch reporting different sets, the
\* second rendered after the first.
C4_Witness ==
    /\ Len(Outcomes) = 2
    /\ Outcomes[1].fmt = "caps"
    /\ Outcomes[2].fmt = "caps"
    /\ Outcomes[1].text =
         <<"chown", "=", "e", "p", " ", "dac_override", "=", "i", "p">>
    /\ Outcomes[2].text = <<"=">>

\* C5: no error is swallowed: once an argument's iteration is over, each
\* failed step in it (a failed query, a rendering that returned no string)
\* has a failure report carrying its cause, and a success line exists only
\* if both the query and the rendering succeeded.
C5_NoErrorSwallowed ==
    \A k \in Processed :
        /\ \A j \in CallsFor("capgetp", k) :
              calls[j].ret = -1 =>
                \E l \in LinesFor("fail", k) : stderr[l].cause = calls[j].cause
        /\ \A j \in CallsFor("cap_to_text", k) :
              calls[j].ret = NULL =>
                /\ LinesFor("fail", k) # {}
                /\ LinesFor("caps", k) = {}

\* C6: each argument's capability state is read by exactly one capgetp
\* call, failed or not, so a batch that runs its loop to the end has made
\* exactly as many calls as it has arguments.
C6_OneQueryPerArgument ==
    /\ \A k \in 1 .. Len(args) : Cardinality(CallsFor("capgetp", k)) <= 1
    /\ \A j \in CallsTo("capgetp") : calls[j].arg \in 1 .. Len(args)
    /\ \A k \in Processed : Cardinality(CallsFor("capgetp", k)) = 1
    /\ status = 0 => Cardinality(CallsTo("capgetp")) = Len(args)

\* C6's case: a finished batch of two arguments in which a query failed.
C6_Witness ==
    /\ status = 0
    /\ Len(args) = 2
    /\ \E j \in CallsTo("capgetp") : calls[j].ret = -1
    /\ Cardinality(CallsTo("capgetp")) = 2

\* C7: the encoding of the set with no bit set in any vector is the token
\* "=", and no rendered line has an empty text, so a successful query of
\* an empty set reads differently from a failed query.
C7_EmptySetMarker ==
    /\ \A j \in CallsTo("cap_to_text") :
          calls[j].set = EmptyCapSet /\ calls[j].ret # NULL =>
            calls[j].ret.val = <<"=">>
    /\ \A l \in DOMAIN stderr :
          stderr[l].fmt = "caps" =>
            /\ stderr[l].text # <<>>
            /\ \A j \in CallsFor("cap_to_text", stderr[l].arg) :
                  calls[j].set = EmptyCapSet /\ calls[j].ret # NULL =>
                    stderr[l].text = <<"=">>
    /\ \A l \in DOMAIN stderr :
          stderr[l].fmt = "fail" =>
            \A j \in CallsFor("capgetp", stderr[l].arg) : calls[j].ret = -1

\* C7's case: a query that returned the empty set has been rendered.
C7_Witness ==
    \E l \in DOMAIN stderr :
        /\ stderr[l].fmt = "caps"
        /\ stderr[l].text = <<"=">>
        /\ \E j \in CallsFor("capgetp", stderr[l].arg) :
              calls[j].ret = 0 /\ calls[j].set = EmptyCapSet

\* The capabilities set in some vector of c.
BitsOf(c) == c.e \cup c.i \cup c.p

\* C8, as stated: decoding the encoding of any set over [0, MAX_CAP) gives
\* the set back, unnamed bits included.
C8_RoundTripAll ==
    pc = "done" => decoded.val = cap_d.val

\* C8, amended: decoding the encoding of a set gives the set back when
\* every bit set in it has an entry in the name table.
C8_RoundTripNamed ==
    pc = "done" /\ BitsOf(cap_d.val) \subseteq DOMAIN NameTable =>
        decoded.val = cap_d.val

\* C8's case: a set of named bits with two flag signatures has gone
\* through encode and decode.
C8_Witness ==
    /\ pc = "done"
    /\ cap_d.val = [e |-> {0}, i |-> {1}, p |-> {0, 1}]
    /\ result.val = <<"chown", "=", "e", "p", " ", "dac_override", "=", "i", "p">>
    /\ decoded.val = cap_d.val

\* C9: no capability-set object is populated by more than one query or
\* rendered more than once, and each is released after its render.  (A
\* run holds one object, the one cap_init returned.)
C9_SetLifecycle ==
    /\ Cardinality({j \in CallsTo("capgetp") : calls[j].ret = 0}) <= 1
    /\ Cardinality(CallsTo("cap_to_text")) <= 1
    /\ pc = "exit" /\ CallsTo("cap_to_text") # {} =>
          \E j \in CallsTo("cap_free") : calls[j].obj = "cap_d"

ExitRules ==
    /\ Len(args) = 0 => calls = <<>> /\ (pc = "exit" => status = 1)
    /\ BlankSetFailed =>
          CallsTo("capgetp") = {} /\ (pc = "exit" => status = 1)
    /\ pc = "exit" /\ Len(args) > 0 /\ ~BlankSetFailed =>
          /\ status = 0
          /\ Processed = 1 .. Len(args)
          /\ Cardinality(CallsTo("capgetp")) = Len(args)
    /\ pc = "exit" <=> status # -1
    /\ LiveBuffers = IF pc = "fprintf" /\ result # NULL THEN 1
                      ELSE IF pc = "cap_free" /\ result # NULL THEN 1
                      ELSE 0

\* C10: every run terminates; without a pid argument it exits 1 having
\* called nothing; when cap_init fails it exits 1 before any query;
\* otherwise it runs one iteration per argument and exits 0, whatever the
\* queries returned; and no text buffer outlives its iteration.
C10_TerminatesWithStatus ==
    /\ []ExitRules
    /\ <>(pc = "exit")

\* C10's case: a batch of two arguments whose queries both failed has
\* exited.
C10_Witness ==
    /\ pc = "exit"
    /\ status = 0
    /\ Len(args) = 2
    /\ \A j \in CallsTo("capgetp") : calls[j].ret = -1

=============================================================================
